---- MODULE Spec2Model ----
\* TemPy widgets (tempy/widgets.py): TempyTable reconciliation of a data grid
\* into a table tree, and TempyList construction of nested list trees.
\*
\* A node is modelled by what widgets.py reads of it: its tag, its ordered
\* children, and the named attributes the widget sets on the table
\* (body, header, footer, caption).  A cell (Td/Th) holds at most one leaf, so a
\* cell is its content (None for an empty cell) and a row (Tr) is the sequence
\* of its cells.
EXTENDS Integers, Sequences, FiniteSets, TLC

\* ---------------------------------------------------------------- bounds
\* Total size of the inputs one table receives in a behaviour: every call
\* costs 2 plus one per row and one per cell of the data it is given.
MaxWork == 10

\* ---------------------------------------------------------------- values
\* Python's None, as a cell content, a grid value or a caption.
None == "None"

\* Leaf values of the grids.
Vals == {"a", "b"}

CellVals == Vals \cup {None}

\* Outcomes of a call: normal return or the exception that leaves it.
OK == "ok"

\* The rows of at most w cells.
RowsUpTo(w) == UNION {[1..n -> CellVals] : n \in 0..w}

\* The grids of size (rows plus cells) at most n, by n.
GridsBySize[n \in 0..MaxWork] ==
    {<<>>} \cup
    UNION {{<<row>> \o g : g \in GridsBySize[n - 1 - Len(row)]} :
              row \in RowsUpTo(n - 1)}

Grids(n) == IF n < 0 THEN {} ELSE GridsBySize[n]

RECURSIVE GridSize(_)
GridSize(g) == IF Len(g) = 0 THEN 0 ELSE 1 + Len(g[1]) + GridSize(Tail(g))

\* ---------------------------------------------------------------- tree primitive
\* A child of the table node: a Caption, Thead, Tfoot or Tbody with its rows.
\* cell is the tag of the cells of its rows (Th in a header, Td elsewhere).
Part(tag, cell, rows) == [tag |-> tag, cell |-> cell, rows |-> rows]

\* Table.__init__ followed by self.body = None: no child, no named part.
\* body/header/footer are the index in childs of the node the attribute names
\* (0: attribute None or absent); caption is the caption node's children.
NewTable == [childs |-> <<>>, body |-> 0, header |-> 0, footer |-> 0,
             hasCaption |-> FALSE, caption |-> <<>>]

\* self.body is None
BodyIsNone(t) == t.body = 0

\* The rows of self.body (the Tbody's childs).
BodyRows(t) == IF t.body = 0 THEN <<>> ELSE t.childs[t.body].rows

\* `not self.body`: None, or a Tbody whose __len__ is 0.
NotBody(t) == BodyIsNone(t) \/ Len(BodyRows(t)) = 0

SetBodyRows(t, rows) == [t EXCEPT !.childs[t.body].rows = rows]

\* self(body=Tbody()): append a new Tbody and name it self.body.
NewBody(t) ==
    [t EXCEPT !.childs = Append(t.childs, Part("tbody", "td", <<>>)),
              !.body = Len(t.childs) + 1]

\* list.pop(i) on a sequence, 1-based.
RemoveAt(s, i) == [k \in 1..(Len(s) - 1) |-> IF k < i THEN s[k] ELSE s[k + 1]]

\* AdjustableList(row).ljust(n, None)
ljust(row, n) ==
    IF Len(row) >= n THEN row
    ELSE row \o [k \in 1..(n - Len(row)) |-> None]

\* Tr()(Td()(cell) for cell in row_data): a cell given None stays empty.
MakeRow(row_data) == [k \in 1..Len(row_data) |-> row_data[k]]

RECURSIVE MaxLen(_)
\* max(map(len, rows)) for a non-empty sequence of rows
MaxLen(rows) ==
    IF Len(rows) = 1 THEN Len(rows[1])
    ELSE LET m == MaxLen(Tail(rows))
         IN IF Len(rows[1]) > m THEN Len(rows[1]) ELSE m

\* The result of a call: the table it leaves, how it ended, the number of
\* node mutations it made and the number of width checks it ran.
Res(t, e, m, c) == [tbl |-> t, err |-> e, muts |-> m, checks |-> c]

\* ---------------------------------------------------------------- _check_row_size
\* lenKnown: the argument has a length or is an int (row_lenght is a number);
\* otherwise it is None and the comparison raises TypeError.
check_row_size(t, lenKnown, row_lenght) ==
    IF BodyIsNone(t) THEN "TypeError"
    ELSE IF Len(BodyRows(t)) = 0 THEN "ValueError"
    ELSE IF ~lenKnown THEN "TypeError"
    ELSE IF MaxLen(BodyRows(t)) < row_lenght THEN "WidgetDataError"
    ELSE OK

\* ---------------------------------------------------------------- add_row
\* A slip the growth of an empty table would not survive: the width check
\* runs whatever resize_x is.
add_row_always_checks(t, given, row_data, resize_x) ==
    LET chk == check_row_size(t, given, Len(row_data))
    IN IF chk # OK THEN Res(t, chk, 0, 1)
       ELSE IF ~given \/ BodyIsNone(t) THEN Res(t, "TypeError", 0, 1)
       ELSE Res(SetBodyRows(t, Append(BodyRows(t), MakeRow(row_data))), OK, 1, 1)

\* given: row_data is not None.
add_row(t, given, row_data, resize_x) ==
    LET chk == IF resize_x THEN OK ELSE check_row_size(t, given, Len(row_data))
        c == IF resize_x THEN 0 ELSE 1
    IN IF chk # OK THEN Res(t, chk, 0, c)
       ELSE IF ~given \/ BodyIsNone(t) THEN Res(t, "TypeError", 0, c)
       ELSE Res(SetBodyRows(t, Append(BodyRows(t), MakeRow(row_data))), OK, 1, c)

\* ---------------------------------------------------------------- populate
\* The options of one populate call.
Opts(resize_x, force, normalize) ==
    [resize_x |-> resize_x, force |-> force, normalize |-> normalize]

\* The outcome of merging one data row into one table row.
RowRes(row, e, m) == [row |-> row, err |-> e, muts |-> m]

\* One cell pair of lines 130-136.  ix is the cell written (a cell of the row,
\* or the Td just appended to it).
MergeCell(row, ix, d_cell, force, m) ==
    LET cur == row[ix]
    IN IF cur # None /\ cur = d_cell
       THEN RowRes(row, OK, m)                        \* [d_cell] == t_cell.childs
       ELSE LET emptied == force /\ cur # None        \* t_cell.empty()
                c1 == IF emptied THEN None ELSE cur
                filled == c1 = None /\ d_cell # None  \* t_cell(d_cell)
                c2 == IF filled THEN d_cell ELSE c1
            IN RowRes([row EXCEPT ![ix] = c2], OK,
                      m + (IF emptied THEN 1 ELSE 0) + (IF filled THEN 1 ELSE 0))

RECURSIVE CellLoop(_, _, _, _, _, _, _)
\* for t_cell, d_cell in zip_longest(t_row, d_row), lines 129-136.
\* ci: position of the list iterator over the row's cells (cells consumed);
\* cDone: that iterator was exhausted (zip_longest then yields None for it,
\* also after cells are appended); dj: data cells consumed.
CellLoop(row, d_row, O, ci, cDone, dj, m) ==
    LET tHas == ~cDone /\ ci < Len(row)
        dHas == dj < Len(d_row)
    IN IF ~tHas /\ ~dHas THEN RowRes(row, OK, m)
       ELSE LET d_cell == IF dHas THEN d_row[dj + 1] ELSE None
                \* not t_cell: no cell, or a Td with no child
                notCell == ~tHas \/ row[ci + 1] = None
                fresh == notCell /\ O.resize_x        \* Td().append_to(t_row)
                row1 == IF fresh THEN Append(row, None) ELSE row
                ix == IF fresh THEN Len(row1) ELSE ci + 1
                ci2 == IF tHas THEN ci + 1 ELSE ci
                dj2 == IF dHas THEN dj + 1 ELSE dj
            IN IF fresh /\ tHas /\ ~dHas
               \* the data row is exhausted and every empty cell met appends
               \* another empty cell behind the iterator: the loop never ends
               THEN RowRes(row1, "NonTermination", m + 1)
               ELSE IF ~fresh /\ ~tHas
               THEN RowRes(row, "AttributeError", m)  \* None.childs
               ELSE LET r == MergeCell(row1, ix, d_cell, O.force,
                                       m + (IF fresh THEN 1 ELSE 0))
                    IN CellLoop(r.row, d_row, O, ci2, cDone \/ ~tHas, dj2, r.muts)

\* Lines 127-136 for one pair of rows; dGiven: d_row is not None.
MergeRow(t_row, dGiven, d_row, O, max_data_x) ==
    IF ~dGiven THEN RowRes(t_row, "TypeError", 0)     \* list(None) / zip_longest(.., None)
    ELSE CellLoop(t_row, IF O.normalize THEN ljust(d_row, max_data_x) ELSE d_row,
                  O, 0, FALSE, 0, 0)

RECURSIVE RowLoop(_, _, _, _, _, _, _, _, _)
\* for t_row, d_row in zip_longest(self.body, data), lines 121-136.
\* i: position of the list iterator over the body's rows; bDone: it was
\* exhausted; j: data rows consumed.
RowLoop(t, data, O, max_data_x, i, bDone, j, m, c) ==
    LET rows == BodyRows(t)
        tHas == ~bDone /\ i < Len(rows)
        dHas == j < Len(data)
    IN IF ~tHas /\ ~dHas THEN Res(t, OK, m, c)
       ELSE LET t_row == IF tHas THEN rows[i + 1] ELSE <<>>
                d_row == IF dHas THEN data[j + 1] ELSE <<>>
                i2 == IF tHas THEN i + 1 ELSE i
                j2 == IF dHas THEN j + 1 ELSE j
                bDone2 == bDone \/ ~tHas
            IN IF Len(t_row) = 0                      \* not t_row
               THEN LET r == add_row(t, dHas, d_row, FALSE)
                    IN IF r.err # OK THEN Res(r.tbl, r.err, m + r.muts, c + r.checks)
                       ELSE RowLoop(r.tbl, data, O, max_data_x, i2, bDone2, j2,
                                    m + r.muts, c + r.checks)
               ELSE IF Len(d_row) = 0 /\ O.force      \* not d_row and force
               THEN RowLoop(SetBodyRows(t, RemoveAt(rows, i + 1)), data, O,
                            max_data_x, i2, bDone2, j2, m + 1, c)
               ELSE LET r == MergeRow(t_row, dHas, d_row, O, max_data_x)
                        t2 == SetBodyRows(t, [rows EXCEPT ![i + 1] = r.row])
                    IN IF r.err # OK THEN Res(t2, r.err, m + r.muts, c)
                       ELSE RowLoop(t2, data, O, max_data_x, i2, bDone2, j2,
                                    m + r.muts, c)

RECURSIVE AddRows(_, _, _, _)
\* for row in data: self.add_row(row, resize_x=True), lines 115-116
AddRows(t, data, k, m) ==
    IF k > Len(data) THEN Res(t, OK, m, 0)
    ELSE LET r == add_row(t, TRUE, data[k], TRUE)
         IN IF r.err # OK THEN Res(r.tbl, r.err, m + r.muts, r.checks)
            ELSE AddRows(r.tbl, data, k + 1, m + r.muts)

\* A slip the width guard would not survive: only the first data row is measured.
max_data_x_first(data) == Len(data[1])

\* max_data_x = max(map(len, data)), line 118, for a non-empty data
max_data_x(data) == MaxLen(data)

\* TempyTable.populate; given: data is not None.
populate(t, given, data, O) ==
    IF ~given THEN Res(t, OK, 0, 0)
    ELSE IF NotBody(t) THEN AddRows(NewBody(t), data, 1, 1)
    ELSE IF Len(data) = 0 THEN Res(t, "ValueError", 0, 0)    \* max() of nothing
    ELSE LET mx == max_data_x(data)
             chk == IF O.resize_x THEN OK ELSE check_row_size(t, TRUE, mx)
             c == IF O.resize_x THEN 0 ELSE 1
         IN IF chk # OK THEN Res(t, chk, 0, c)
            ELSE RowLoop(t, data, O, mx, 0, FALSE, 0, 0, c)

\* ---------------------------------------------------------------- table parts
\* _make_table_part: a new Thead/Tfoot is always appended to the table; the
\* attribute is set only when the table has none yet.
make_table_part(t, part, data) ==
    LET inst == IF part = "header"
                THEN Part("thead", "th", <<MakeRow(data)>>)
                ELSE Part("tfoot", "td", <<MakeRow(data)>>)
        ix == Len(t.childs) + 1
        t1 == [t EXCEPT !.childs = Append(t.childs, inst)]
    IN IF part = "header"
       THEN [t1 EXCEPT !.header = IF t.header = 0 THEN ix ELSE t.header]
       ELSE [t1 EXCEPT !.footer = IF t.footer = 0 THEN ix ELSE t.footer]

make_header(t, head) == make_table_part(t, "header", head)

make_footer(t, footer) == make_table_part(t, "footer", footer)

\* make_caption: create the Caption once, then replace its content.
make_caption(t, caption) ==
    LET t1 == IF t.hasCaption THEN t
              ELSE [t EXCEPT !.childs = Append(t.childs, Part("caption", "", <<>>)),
                             !.hasCaption = TRUE]
    IN [t1 EXCEPT !.caption = IF caption = None THEN <<>> ELSE <<caption>>]

\* ---------------------------------------------------------------- __init__
\* The grid built when no data is given: rows + head + foot rows of cols Nones.
BlankGrid(rows, cols, head, foot) ==
    [i \in 1..(rows + (IF head THEN 1 ELSE 0) + (IF foot THEN 1 ELSE 0)) |->
        [k \in 1..cols |-> None]]

\* A slip the extraction order would not survive: the footer is taken with
\* data.pop(0), the row after the header, instead of data.pop().
init_footer_pops_first(rows, cols, given, data, caption, head, foot) ==
    LET d0 == IF ~given \/ Len(data) = 0
              THEN BlankGrid(rows, cols, head, foot) ELSE data
        t1 == IF caption # None THEN make_caption(NewTable, caption) ELSE NewTable
    IN IF head /\ Len(d0) = 0 THEN Res(t1, "IndexError", 0, 0)
       ELSE LET t2 == IF head THEN make_header(t1, d0[1]) ELSE t1
                d1 == IF head THEN Tail(d0) ELSE d0
            IN IF foot /\ Len(d1) = 0 THEN Res(t2, "IndexError", 0, 0)
               ELSE LET t3 == IF foot THEN make_footer(t2, d1[1]) ELSE t2
                        d2 == IF foot THEN Tail(d1) ELSE d1
                    IN populate(t3, TRUE, d2, Opts(TRUE, TRUE, TRUE))

\* TempyTable.__init__(rows, cols, data, caption, head, foot); given: data is
\* not None.
init(rows, cols, given, data, caption, head, foot) ==
    LET d0 == IF ~given \/ Len(data) = 0
              THEN BlankGrid(rows, cols, head, foot) ELSE data
        t1 == IF caption # None THEN make_caption(NewTable, caption) ELSE NewTable
    IN IF head /\ Len(d0) = 0 THEN Res(t1, "IndexError", 0, 0)
       ELSE LET t2 == IF head THEN make_header(t1, d0[1]) ELSE t1
                d1 == IF head THEN Tail(d0) ELSE d0
            IN IF foot /\ Len(d1) = 0 THEN Res(t2, "IndexError", 0, 0)
               ELSE LET t3 == IF foot THEN make_footer(t2, d1[Len(d1)]) ELSE t2
                        d2 == IF foot THEN SubSeq(d1, 1, Len(d1) - 1) ELSE d1
                    IN populate(t3, TRUE, d2, Opts(TRUE, TRUE, TRUE))

\* ---------------------------------------------------------------- state
VARIABLES
    pc,      \* "new": no table yet; "live": a table exists; "dead": the
             \* constructor raised; "hung": a call never returned
    tbl,     \* the table node
    err,     \* how the last call ended
    last,    \* the last call: its name, arguments, the table before it and
             \* what it did
    work,    \* size of the inputs given so far
    norm     \* every call so far was the constructor or populate(normalize=True)
             \* and returned normally

tvars == <<pc, tbl, err, last, work, norm>>

VARIABLES
    lpc,     \* "new": no list yet; "live": a list exists; "dead": the factory raised
    lst,     \* the list node (when the factory raised: the root list abandoned)
    lerr,    \* how the last call ended
    llast,   \* the last call: name, arguments, the node before, items appended
    lwork    \* size of the structures given so far

lvars == <<lpc, lst, lerr, llast, lwork>>

vars == <<pc, tbl, err, last, work, norm, lpc, lst, lerr, llast, lwork>>


NoOpts == Opts(FALSE, FALSE, FALSE)

Call(op, given, data, O, cap, head, foot, pre, r) ==
    [op |-> op, given |-> given, data |-> data, opt |-> O, caption |-> cap,
     head |-> head, foot |-> foot, pre |-> pre, muts |-> r.muts,
     checks |-> r.checks]

TInit ==
    /\ pc = "new"
    /\ tbl = NewTable
    /\ err = OK
    /\ last = Call("none", FALSE, <<>>, NoOpts, None, FALSE, FALSE, NewTable,
                   Res(NewTable, OK, 0, 0))
    /\ work = 0
    /\ norm = TRUE

After(r) == IF r.err = "NonTermination" THEN "hung" ELSE "live"

\* What is left of MaxWork for the data of one more call.
Room == MaxWork - work - 2

Spend(n) == work' = work + 2 + n /\ UNCHANGED <<lpc, lst, lerr, llast, lwork>>

Construct(rows, cols, given, data, caption, head, foot) ==
    /\ pc = "new"
    /\ LET r == init(rows, cols, given, data, caption, head, foot)
       IN /\ pc' = IF r.err = OK THEN "live" ELSE "dead"
          /\ tbl' = r.tbl
          /\ err' = r.err
          /\ last' = Call("init", given, data, Opts(TRUE, TRUE, TRUE), caption,
                          head, foot, NewTable, r)
          /\ norm' = (r.err = OK)
    /\ Spend(IF given THEN GridSize(data) ELSE rows + cols)

Populate(given, data, O) ==
    /\ pc = "live"
    /\ LET r == populate(tbl, given, data, O)
       IN /\ pc' = After(r)
          /\ tbl' = r.tbl
          /\ err' = r.err
          /\ last' = Call("populate", given, data, O, None, FALSE, FALSE, tbl, r)
          /\ norm' = (norm /\ O.normalize /\ r.err = OK)
    /\ Spend(GridSize(data))

AddRow(row_data, resize_x) ==
    /\ pc = "live"
    /\ LET r == add_row(tbl, TRUE, row_data, resize_x)
       IN /\ pc' = After(r)
          /\ tbl' = r.tbl
          /\ err' = r.err
          /\ last' = Call("add_row", TRUE, <<row_data>>, Opts(resize_x, FALSE, FALSE),
                          None, FALSE, FALSE, tbl, r)
    /\ norm' = FALSE
    /\ Spend(1 + Len(row_data))

MakePart(op, t, cap, n) ==
    /\ pc = "live"
    /\ tbl' = t
    /\ err' = OK
    /\ last' = Call(op, FALSE, <<>>, NoOpts, cap, FALSE, FALSE, tbl,
                    Res(t, OK, 0, 0))
    /\ norm' = FALSE
    /\ Spend(n)
    /\ UNCHANGED pc

MakeCaption(caption) == MakePart("make_caption", make_caption(tbl, caption), caption, 0)

MakeHeader(head) == MakePart("make_header", make_header(tbl, head), None, 1 + Len(head))

MakeFooter(footer) == MakePart("make_footer", make_footer(tbl, footer), None, 1 + Len(footer))

Captions == {None, "c"}

Next ==
    \/ \E data \in Grids(Room), cap \in Captions, head, foot \in BOOLEAN :
          Construct(0, 0, TRUE, data, cap, head, foot)
    \/ \E rows \in 0..Room, cap \in Captions, head, foot \in BOOLEAN :
          \E cols \in 0..(Room - rows) :
             Construct(rows, cols, FALSE, <<>>, cap, head, foot)
    \/ \E data \in Grids(Room), rx, f, n \in BOOLEAN : Populate(TRUE, data, Opts(rx, f, n))
    \/ Room >= 0 /\ Populate(FALSE, <<>>, Opts(FALSE, TRUE, TRUE))
    \/ \E row \in RowsUpTo(Room - 1), rx \in BOOLEAN : AddRow(row, rx)
    \/ \E cap \in Captions : Room >= 0 /\ MakeCaption(cap)
    \/ \E row \in RowsUpTo(Room - 1) : MakeHeader(row)
    \/ \E row \in RowsUpTo(Room - 1) : MakeFooter(row)


\* ---------------------------------------------------------------- list structures
\* Total size of the structure one list is built from (see StructSize).
MaxSize == 7

\* Keys of the mappings and values of the flat sequences.
Keys == {"a", "b"}

\* The special key of a mapping that carries the list type of its level.
TypKey == "_typ"

\* List types as the code receives them: no type (None), the tag classes
\* tempy.tags.Ul / Ol (written <Ul>, <Ol>), and strings: the name of a list
\* tag, the name of a tag that is no list, and a name tempy.tags does not have.
NoTyp == "None"

ClassTyps == {"<Ul>", "<Ol>"}

StrTyps == {"Ol", "Td", "NotARealFlavor"}

Typs == ClassTyps \cup StrTyps

\* getattr(tempy.tags, name) for the names of the model: widgets.py imports
\* Td, Li and Ul from tempy.tags and documents Ol.
TagNames == {"Ul", "Ol", "Td"}

\* A structure: None, a flat list/tuple of keys, a mapping (entries in
\* iteration order: key, sub-structure, and for the "_typ" key its type), or
\* a value that is none of these (kind "other", e.g. a number or a string).
NoneS == [kind |-> "none", keys |-> <<>>, entries |-> <<>>]

OtherS == [kind |-> "other", keys |-> <<>>, entries |-> <<>>]

SeqS(keys) == [kind |-> "seq", keys |-> keys, entries |-> <<>>]

MapS(entries) == [kind |-> "map", keys |-> <<>>, entries |-> entries]

Entry(k, sub) == [key |-> k, sub |-> sub, typ |-> NoTyp]

TypEntry(typ) == [key |-> TypKey, sub |-> NoneS, typ |-> typ]

\* The flat sequences of at most n values, repeated values included.
KeySeqs(n) == UNION {[1..m -> Keys] : m \in 0..n}

RECURSIVE StructSize(_)
RECURSIVE EntriesSize(_)
StructSize(s) ==
    IF s.kind = "seq" THEN 1 + Len(s.keys)
    ELSE IF s.kind = "map" THEN 1 + EntriesSize(s.entries)
    ELSE 0

EntriesSize(es) ==
    IF Len(es) = 0 THEN 0 ELSE 1 + StructSize(es[1].sub) + EntriesSize(Tail(es))

\* The structures of size at most n and the entry lists of size at most n
\* (mappings have distinct keys, "_typ" at most once, anywhere).  A structure
\* costs 1, plus 1 per value of a sequence, plus 1 per entry of a mapping and
\* the size of the entry's sub-structure.
StructsBySize[n \in 0..MaxSize] ==
    IF n = 0 THEN {}
    ELSE {SeqS(ks) : ks \in KeySeqs(n - 1)} \cup
         LET Subs(m) == IF m <= 0 THEN {NoneS} ELSE {NoneS, OtherS} \cup StructsBySize[m]
             Ents(m) == IF m <= 0 THEN {}
                        ELSE {TypEntry(t) : t \in Typs} \cup
                             {Entry(k, sub) : k \in Keys, sub \in Subs(m - 1)}
             E1 == {<<e>> : e \in Ents(n - 1)}
             E2 == UNION {UNION {{<<e1, e2>> :
                                     e2 \in {e \in Ents(n - 1 - m) : e.key # e1.key}} :
                                   e1 \in Ents(m)} :
                            m \in 1..(n - 2)}
             E3 == UNION {UNION {{<<p[1], p[2], e3>> :
                                     e3 \in {e \in Ents(n - 1 - m) :
                                                e.key # p[1].key /\ e.key # p[2].key}} :
                                   p \in {q \in E2 : EntriesSize(q) <= m}} :
                            m \in 2..(n - 2)}
         IN {MapS(es) : es \in {<<>>} \cup E1 \cup E2 \cup E3}

Structs(n) == IF n <= 0 THEN {} ELSE StructsBySize[n]

\* ---------------------------------------------------------------- list trees
\* A list node: the tag class it was built with (self._typ) and its Li items;
\* an item is its leaf content (None: an Li without content) and the nested
\* lists appended to it.
ListNode(typ, items) == [typ |-> typ, items |-> items]

Item(content, nested) == [content |-> content, nested |-> nested]

\* No list: what a failed factory call leaves its caller with.
NoList == ListNode("", <<>>)

\* The result of a list call: the node, how the call ended, and the number
\* of Li nodes the call appended to list nodes.
LRes(node, e, n) == [node |-> node, err |-> e, appended |-> n]

\* getattr(tags, typ) for a name tempy.tags has.
ClassOf(name) ==
    CASE name = "Ul" -> "<Ul>"
      [] name = "Ol" -> "<Ol>"
      [] name = "Td" -> "<Td>"

\* if submenu: None, an empty list and an empty dict are false.
Truthy(s) ==
    CASE s.kind = "none" -> FALSE
      [] s.kind = "seq" -> Len(s.keys) > 0
      [] s.kind = "map" -> Len(s.entries) > 0
      [] OTHER -> TRUE

RECURSIVE Dedup(_)
\* The keys of dict(zip_longest(struct, [None])): each value once, in the
\* order of its first occurrence.
Dedup(keys) ==
    IF Len(keys) = 0 THEN <<>>
    ELSE LET front == Dedup(SubSeq(keys, 1, Len(keys) - 1))
             k == keys[Len(keys)]
         IN IF \E i \in 1..Len(front) : front[i] = k THEN front
            ELSE Append(front, k)

\* struct.items() after line 231.  zip_longest(struct, [None]) yields one pair
\* per value, and one pair (None, None) when struct is empty: [None] is then
\* the longer side.
Items(struct) ==
    IF struct.kind = "seq"
    THEN LET ks == IF Len(struct.keys) = 0 THEN <<None>> ELSE Dedup(struct.keys)
         IN [i \in 1..Len(ks) |-> Entry(ks[i], NoneS)]
    ELSE struct.entries

\* The value populate reads under a key: under "_typ" it is the type itself,
\* a string or a class, which is no structure.
ValueOf(e) == IF e.key = TypKey THEN OtherS ELSE e.sub

HasTyp(struct) ==
    struct.kind = "map" /\ \E i \in 1..Len(struct.entries) : struct.entries[i].key = TypKey

\* struct.pop('_typ'): the value, and the mapping without the key.
PoppedTyp(struct) ==
    LET i == CHOOSE i \in 1..Len(struct.entries) : struct.entries[i].key = TypKey
    IN struct.entries[i].typ

WithoutTyp(struct) == MapS(SelectSeq(struct.entries, LAMBDA e : e.key # TypKey))

RECURSIVE TempyList(_, _)
RECURSIVE ItemLoop(_, _, _, _)

\* TempyListMeta.populate on a list node.
list_populate(node, struct) ==
    IF struct.kind = "none" THEN LRes(node, OK, 0)
    ELSE IF struct.kind = "other" THEN LRes(node, "WidgetDataError", 0)
    ELSE ItemLoop(node, Items(struct), 1, 0)

\* for k, submenu in struct.items(), lines 235-239
ItemLoop(node, entries, k, n) ==
    IF k > Len(entries) THEN LRes(node, OK, n)
    ELSE LET e == entries[k]
             node1 == [node EXCEPT !.items = Append(node.items, Item(e.key, <<>>))]
         IN IF ~Truthy(ValueOf(e)) THEN ItemLoop(node1, entries, k + 1, n + 1)
            ELSE LET r == TempyList(node.typ, ValueOf(e))
                 IN IF r.err # OK THEN LRes(node1, r.err, n + 1 + r.appended)
                    ELSE ItemLoop([node1 EXCEPT !.items[Len(node1.items)].nested = <<r.node>>],
                                  entries, k + 1, n + 1 + r.appended)

\* A slip in the resolution order: the type passed by the caller wins over
\* the one embedded in the structure.
TempyList_passed_first(typ, struct) ==
    LET typ1 == IF typ = NoTyp /\ HasTyp(struct) THEN PoppedTyp(struct) ELSE typ
        struct1 == IF HasTyp(struct) THEN WithoutTyp(struct) ELSE struct
    IN IF typ1 \in StrTyps /\ typ1 \notin TagNames THEN LRes(NoList, "WidgetError", 0)
       ELSE LET typ2 == IF typ1 \in StrTyps THEN ClassOf(typ1) ELSE typ1
                typ3 == IF typ2 = NoTyp THEN "<Ul>" ELSE typ2
            IN list_populate(ListNode(typ3, <<>>), struct1)

\* TempyList.__new__(typ, struct), then TempyListMeta.__init__.
TempyList(typ, struct) ==
    LET typ1 == IF HasTyp(struct) THEN PoppedTyp(struct) ELSE typ
        struct1 == IF HasTyp(struct) THEN WithoutTyp(struct) ELSE struct
    IN IF typ1 \in StrTyps /\ typ1 \notin TagNames THEN LRes(NoList, "WidgetError", 0)
       ELSE LET typ2 == IF typ1 \in StrTyps THEN ClassOf(typ1) ELSE typ1
                typ3 == IF typ2 = NoTyp THEN "<Ul>" ELSE typ2
            IN list_populate(ListNode(typ3, <<>>), struct1)

\* ---------------------------------------------------------------- list state
LCall(op, typ, struct, pre, n) ==
    [op |-> op, typ |-> typ, struct |-> struct, pre |-> pre, appended |-> n]

LInit ==
    /\ lpc = "new"
    /\ lst = NoList
    /\ lerr = OK
    /\ llast = LCall("none", NoTyp, NoneS, NoList, 0)
    /\ lwork = 0

\* The structures a call may still be given.
Inputs == {NoneS, OtherS} \cup Structs(MaxSize - lwork)

\* TempyList(typ=typ, struct=struct)
NewList(typ, struct) ==
    /\ lpc = "new"
    /\ LET r == TempyList(typ, struct)
       IN /\ lpc' = IF r.err = OK THEN "live" ELSE "dead"
          /\ lst' = r.node
          /\ lerr' = r.err
          /\ llast' = LCall("new", typ, struct, NoList, r.appended)
    /\ lwork' = lwork + StructSize(struct)
    /\ UNCHANGED tvars

\* lst.populate(struct) on a list built before
ListPopulate(struct) ==
    /\ lpc = "live"
    /\ LET r == list_populate(lst, struct)
       IN /\ lst' = r.node
          /\ lerr' = r.err
          /\ llast' = LCall("populate", NoTyp, struct, lst, r.appended)
    /\ lwork' = lwork + 1 + StructSize(struct)
    /\ UNCHANGED <<lpc, pc, tbl, err, last, work, norm>>

ListNext ==
    \/ \E typ \in {NoTyp} \cup Typs, struct \in Inputs : NewList(typ, struct)
    \/ \E struct \in {NoneS, OtherS} \cup Structs(MaxSize - lwork - 1) :
          lwork < MaxSize /\ ListPopulate(struct)

\* ---------------------------------------------------------------- table claims
\* The last call was populate(data, resize_x, force, normalize) with a grid.
Populated == last.op = "populate" /\ last.given

PreRows == BodyRows(last.pre)

Rows == BodyRows(tbl)

\* C1: populate is idempotent: when populate(G, O) completes, a second
\* populate(G, O) on the resulting table completes, mutates no node and leaves
\* the table as the first call left it.
C1_Idempotent ==
    (Populated /\ err = OK) =>
        LET r == populate(tbl, TRUE, last.data, last.opt)
        IN r.err = OK /\ r.muts = 0 /\ r.tbl = tbl

\* C2: populate of a table of n body rows with a grid of k < n rows: with
\* force the call leaves exactly the first k rows, without force it completes
\* and leaves every surplus row as it was.
C2_SurplusRows ==
    (Populated /\ Len(PreRows) >= 1 /\ Len(last.data) < Len(PreRows)) =>
        LET k == Len(last.data)
            n == Len(PreRows)
        IN /\ err = OK
           /\ tbl.body = last.pre.body
           /\ IF last.opt.force THEN Len(Rows) = k
              ELSE /\ Len(Rows) = n
                   /\ \A i \in (k + 1)..n : Rows[i] = PreRows[i]

\* Some row of the grid is wider than the widest row of the table's body.
TooWide(data, rows) == \E i \in 1..Len(data) : Len(data[i]) > MaxLen(rows)

\* C3: width guard: on a table whose body has rows, populate with
\* resize_x=False and a grid holding a row wider than the body's widest row
\* raises WidgetDataError and leaves the table unmodified, whatever force and
\* normalize are and wherever the wide row is.
C3_WidthGuard ==
    (Populated /\ ~last.opt.resize_x /\ Len(PreRows) >= 1
        /\ TooWide(last.data, PreRows)) =>
        err = "WidgetDataError" /\ tbl = last.pre /\ last.muts = 0

\* C3 happens: the guard fired on a grid whose first row fits and whose last
\* row is too wide, on a body that has cells.
C3_Witness ==
    /\ Populated /\ ~last.opt.resize_x /\ err = "WidgetDataError"
    /\ Len(PreRows) >= 1 /\ MaxLen(PreRows) >= 1
    /\ Len(last.data) >= 2
    /\ Len(last.data[1]) <= MaxLen(PreRows)
    /\ Len(last.data[Len(last.data)]) > MaxLen(PreRows)

\* The grid has r rows of c cells each.
Rect(data) == \A i, j \in 1..Len(data) : Len(data[i]) = Len(data[j])

\* populate ran on a table that owns no rows: a populate call on a body of no
\* rows, or the constructor's populate (body None) on the grid it was given.
OnEmpty ==
    \/ Populated /\ Len(PreRows) = 0
    \/ last.op = "init" /\ last.given /\ Len(last.data) >= 1
          /\ ~last.head /\ ~last.foot

\* C4: row-count growth: populate of a table that owns no rows with a grid of
\* r rows by c columns leaves a body of exactly r rows of c cells whose
\* contents are the grid's values, position by position; only the body and
\* its r rows are created and no width check runs.
C4_Growth ==
    (OnEmpty /\ Rect(last.data)) =>
        /\ err = OK
        /\ Len(Rows) = Len(last.data)
        /\ \A i \in 1..Len(Rows) :
              /\ Len(Rows[i]) = Len(last.data[i])
              /\ \A j \in 1..Len(Rows[i]) : Rows[i][j] = last.data[i][j]
        /\ last.muts = 1 + Len(last.data)
        /\ last.checks = 0

\* C4 happens: a table built without data was populated with a 2 x 1 grid of
\* two different values.
C4_Witness ==
    /\ Populated /\ Len(PreRows) = 0 /\ last.pre.body # 0 /\ err = OK
    /\ Len(last.data) = 2 /\ Rect(last.data) /\ Len(last.data[1]) = 1
    /\ last.data[1] # last.data[2]
    /\ Rows = last.data

Tags(t) == [i \in 1..Len(t.childs) |-> t.childs[i].tag]

\* C5: TempyTable(data, head=True, foot=True) on a grid of n >= 2 rows builds
\* the header from the first row, the footer from the last row and the body
\* from the other n-2 rows in order; the table's children are, in order, the
\* caption (when one is given), the header, the footer and the body.
C5_HeadFoot ==
    (last.op = "init" /\ last.given /\ last.head /\ last.foot
        /\ Len(last.data) >= 2) =>
        LET n == Len(last.data)
        IN /\ err = OK
           /\ Tags(tbl) = (IF last.caption # None THEN <<"caption">> ELSE <<>>)
                             \o <<"thead", "tfoot", "tbody">>
           /\ tbl.header # 0 /\ tbl.childs[tbl.header].tag = "thead"
           /\ tbl.childs[tbl.header].rows = <<last.data[1]>>
           /\ tbl.footer # 0 /\ tbl.childs[tbl.footer].tag = "tfoot"
           /\ tbl.childs[tbl.footer].rows = <<last.data[n]>>
           /\ Rows = SubSeq(last.data, 2, n - 1)

\* C5 happens: a table with a caption was built from four rows, the first
\* unlike the last and the two body rows unlike each other.
C5_Witness ==
    /\ last.op = "init" /\ last.given /\ last.head /\ last.foot /\ err = OK
    /\ last.caption # None
    /\ Len(last.data) = 4
    /\ last.data[1] # last.data[4]
    /\ last.data[2] # last.data[3]
    /\ Len(Rows) = 2

\* Every row of the body has the same number of cells.
Uniform(rows) == \A i, j \in 1..Len(rows) : Len(rows[i]) = Len(rows[j])

\* C9: after a construction and populate calls with normalize=True that all
\* completed, every row of the body has the same number of cells.
C9_Normalized == (pc = "live" /\ norm) => Uniform(Rows)

Count(t, tag) == Cardinality({i \in 1..Len(t.childs) : t.childs[i].tag = tag})

\* C10: the table owns at most one caption, one header container, one body
\* and one footer container, and after make_caption the one caption holds
\* the content given last.
C10_OneOfEach ==
    (pc = "live" /\ err = OK) =>
        /\ \A tag \in {"caption", "thead", "tbody", "tfoot"} : Count(tbl, tag) <= 1
        /\ last.op = "make_caption" =>
              /\ Count(tbl, "caption") = 1
              /\ tbl.caption = IF last.caption = None THEN <<>> ELSE <<last.caption>>

\* ---------------------------------------------------------------- list claims
\* The last call was TempyList(typ, struct).
Built == llast.op = "new"

\* C6: a list built from a flat sequence of n values has exactly n items, whose
\* contents are the values in order, and no item owns a nested list.
C6_Flat ==
    (Built /\ llast.struct.kind = "seq") =>
        /\ lerr = OK
        /\ Len(lst.items) = Len(llast.struct.keys)
        /\ \A i \in 1..Len(lst.items) :
              /\ lst.items[i].content = llast.struct.keys[i]
              /\ lst.items[i].nested = <<>>

\* The type a structure embeds for its own level, if any.
Overrides(struct) ==
    IF struct.kind # "map" THEN {}
    ELSE {struct.entries[i].typ :
             i \in {j \in 1..Len(struct.entries) : struct.entries[j].key = TypKey}}

\* The tag class a type stands for: a class is itself, a string names one.
Flavor(typ) ==
    CASE typ = NoTyp -> "<Ul>"
      [] typ \in {"<Ul>", "Ul"} -> "<Ul>"
      [] typ \in {"<Ol>", "Ol"} -> "<Ol>"
      [] typ \in {"<Td>", "Td"} -> "<Td>"

\* The flavor of a list built from struct when `passed` is the type given to
\* the call: the embedded override if there is one, else the type passed,
\* else unordered.
Resolved(passed, struct) ==
    IF Overrides(struct) # {} THEN Flavor(CHOOSE t \in Overrides(struct) : TRUE)
    ELSE Flavor(passed)

\* A sub-structure is present: not None and not empty.
Present(sub) ==
    \/ sub.kind = "seq" /\ Len(sub.keys) > 0
    \/ sub.kind = "map" /\ Len(sub.entries) > 0
    \/ sub.kind = "other"

RECURSIVE Conforms(_, _, _)
\* The list node is what C7 says TempyList(passed, struct) builds.
Conforms(node, passed, struct) ==
    /\ node.typ = Resolved(passed, struct)
    /\ \A i \in 1..Len(node.items) : node.items[i].content # TypKey
    /\ struct.kind = "map" =>
          LET es == SelectSeq(struct.entries, LAMBDA e : e.key # TypKey)
          IN /\ Len(node.items) = Len(es)
             /\ \A i \in 1..Len(es) :
                   /\ node.items[i].content = es[i].key
                   /\ Len(node.items[i].nested) = (IF Present(es[i].sub) THEN 1 ELSE 0)
                   /\ Present(es[i].sub) =>
                         Conforms(node.items[i].nested[1], node.typ, es[i].sub)

\* C7: a list built from a mapping has one item per (key, sub) entry in
\* iteration order, an item owns a nested list exactly when its sub-structure
\* is present, every list's flavor is its level's embedded override if there
\* is one and otherwise the flavor passed to it (its parent's; unordered at a
\* root given none), and "_typ" is never an item.
C7_Nested ==
    (Built /\ llast.struct.kind = "map" /\ lerr = OK) =>
        Conforms(lst, llast.typ, llast.struct)

\* C7 happens: an ordered root whose first item owns a nested list that
\* inherited the root's flavor and whose second item owns one that overrode it.
C7_Witness ==
    /\ Built /\ llast.struct.kind = "map" /\ lerr = OK
    /\ lst.typ = "<Ol>"
    /\ Len(lst.items) = 2
    /\ Len(lst.items[1].nested) = 1 /\ lst.items[1].nested[1].typ = "<Ol>"
    /\ Overrides(llast.struct.entries[1].sub) = {}
    /\ Len(lst.items[2].nested) = 1 /\ lst.items[2].nested[1].typ = "<Ul>"

\* Strings that name no list variant.
NoListNames == {"Td", "NotARealFlavor"}

RECURSIVE EmbedsBad(_)
\* Some level of the structure embeds an override that names no list variant.
EmbedsBad(struct) ==
    /\ struct.kind = "map"
    /\ \E i \in 1..Len(struct.entries) :
          \/ struct.entries[i].key = TypKey /\ struct.entries[i].typ \in NoListNames
          \/ struct.entries[i].key # TypKey /\ EmbedsBad(struct.entries[i].sub)

\* C8: a list type that names no list variant, passed to TempyList or embedded
\* at any level of the structure, makes the call raise WidgetError before any
\* item has been appended to any list.
C8_FailFast ==
    (Built /\ (llast.typ \in NoListNames \/ EmbedsBad(llast.struct))) =>
        lerr = "WidgetError" /\ llast.appended = 0

\* ---------------------------------------------------------------- specifications
Init == TInit /\ LInit

\* A table and the calls made on it.
Spec == Init /\ [][Next]_vars

\* A list and the calls made on it.
SpecList == Init /\ [][ListNext]_vars

====
